---- MODULE Spec2Model ----
(***************************************************************************)
(* The two readiness waiters of the AWS deployment:                        *)
(*   LambdaEniWaitProvider.create   (src/src/utils/eip-waiting.ts)         *)
(*   WaitForEfsProvider.create      (src/src/utils/ingestro.ts)            *)
(* One run of one provider's create() is modelled. A step of the model is  *)
(* the code between two awaits: the probe call (client.send), the sleep    *)
(* between polls, the stabilization sleep. Time is the wall clock in       *)
(* milliseconds, as Date.now() reads it.                                   *)
(*                                                                         *)
(* Around the run, initialLambdaFunctions (src/src/utils/                  *)
(* lambda.deployment.ts) declares the resources that wait for it: stack    *)
(* holds what is declared and what the engine has created (DeploySpec).    *)
(* PairSpec follows two runs side by side, each with its own record in     *)
(* runs; there a probe call returns at once. ProgramSpec follows           *)
(* initialLambdaFunctions itself: program holds its arrays while its       *)
(* synchronous part and its apply() callbacks fill them, and the resources *)
(* take their dependsOn from the arrays as they are when constructed.      *)
(* UrlSpec follows getSourceCodeRemoteUrl of the Azure deployment          *)
(* (src/unnamed/part_010) in urlCall.                                      *)
(*                                                                         *)
(* JavaScript values: an optional value is <<>> (undefined) or <<v>>; an   *)
(* optional string field is "" when absent (the code only tests its        *)
(* truthiness); a Map is the sequence of its <<key, value>> entries in     *)
(* insertion order; a string built by join() is the sequence of its parts  *)
(* and separators.                                                         *)
(***************************************************************************)
EXTENDS Integers, Sequences, FiniteSets, TLC

VARIABLES
  kind,            \* "eni" | "efs": which provider's create() runs
  inputs,          \* the inputs object handed to create()
  pc,              \* position of the run
  now,             \* wall clock, ms
  loc,             \* the locals of create()
  lastResp,        \* <<>> or <<resp>>: the response of the latest probe
  probes,          \* number of probe calls issued so far
  lastIssuedAt,    \* clock reading when the latest probe was issued
  result,          \* <<>> or <<CreateResult>>
  error,           \* <<>> or <<the Error thrown>>
  cancelRequested, \* the deployment was cancelled from outside
  monotone,        \* every response so far contained the one before it
  slow,            \* number of probe calls so far that were slow to resolve
  startedAt,       \* clock reading when create() was entered
  probeErrors,     \* number of probe calls that rejected
  stack,           \* the resources declared after the wait and those created
  runs,            \* two runs side by side (empty when one run is followed)
  console,         \* the lines the run wrote to the console in its latest step
  program,         \* initialLambdaFunctions: its arrays and pending callbacks
  urlCall          \* the call of getSourceCodeRemoteUrl (Azure deployment)

vars == <<kind, inputs, pc, now, loc, lastResp, probes, lastIssuedAt,
          result, error, cancelRequested, monotone, slow, startedAt, probeErrors,
          stack, runs, console, program, urlCall>>

----------------------------------------------------------------------------
(* Bounds of the model *)

\* A probe call resolves at once or after SlowProbeSeconds; at most
\* MaxSlowProbes calls of a run are slow.
SlowProbeSeconds == 12

MaxSlowProbes == 1

MaxEnis == 2

MaxTargets == 2

----------------------------------------------------------------------------
(* Optional values *)

None == <<>>

Some(v) == <<v>>

IsSome(o) == Len(o) = 1

Get(o) == o[1]

Truthy(s) == s # ""

Range(s) == {s[i] : i \in 1..Len(s)}

SeqsNoRep(S, n) ==
  UNION {{s \in [1..k -> S] : \A i, j \in 1..k : i # j => s[i] # s[j]} : k \in 0..n}

----------------------------------------------------------------------------
(* The environment: what the control plane can hold and report *)

Subnets == {"subnet-1", "subnet-2"}

\* The Lambda interfaces the EC2 control plane may list. Two share a subnet,
\* one is listed without a NetworkInterfaceId.
Interfaces ==
  { [SubnetId |-> "subnet-1", NetworkInterfaceId |-> "eni-a"],
    [SubnetId |-> "subnet-2", NetworkInterfaceId |-> "eni-b"],
    [SubnetId |-> "subnet-2", NetworkInterfaceId |-> "eni-c"],
    [SubnetId |-> "subnet-1", NetworkInterfaceId |-> ""] }

CloudListings == SeqsNoRep(Interfaces, MaxEnis)

MountTargetIds == <<"fsmt-1", "fsmt-2", "fsmt-3">>

LifeCycleStates == {"creating", "available"}

\* DescribeMountTargets output: MountTargets absent, or a list of targets.
EfsResponses ==
  {[MountTargets |-> None]} \cup
  UNION {{[MountTargets |->
             Some([i \in 1..n |-> [MountTargetId |-> MountTargetIds[i],
                                    LifeCycleState |-> st[i]]])] :
           st \in [1..n -> LifeCycleStates]} : n \in 0..MaxTargets}

Latencies == {0, SlowProbeSeconds * 1000}

StartTimes == {3000}

EniInputs ==
  {[securityGroupId |-> "sg-1", subnetIds |-> s] :
     s \in {<<>>, <<"subnet-2">>, <<"subnet-2", "subnet-1">>}}

\* <<timeoutSeconds, stabilizationSeconds>> as the caller may give them.
EfsOverrides ==
  {<<None, None>>, <<Some(0), Some(0)>>, <<Some(20), None>>,
   <<Some(20), Some(0)>>, <<Some(20), Some(15)>>}

EfsInputs ==
  {[fileSystemId |-> "fs-1", timeoutSeconds |-> o[1], stabilizationSeconds |-> o[2]] :
     o \in EfsOverrides}
  \cup {[fileSystemId |-> "fs-2", timeoutSeconds |-> Some(20),
          stabilizationSeconds |-> Some(0)]}

----------------------------------------------------------------------------
(* LambdaEniWaitProvider.create: constants and pure parts *)

EniTimeoutSeconds == 300

EniPollSeconds == 5

\* Faulty variant: the request without its subnet-id filter.
DescribeNetworkInterfacesNoSubnetFilter(cloud, subnetIds) ==
  [NetworkInterfaces |-> Some(cloud)]

\* DescribeNetworkInterfaces with the subnet-id filter of the request.
DescribeNetworkInterfaces(cloud, subnetIds) ==
  [NetworkInterfaces |->
     Some(SelectSeq(cloud, LAMBDA ni : ni.SubnetId \in Range(subnetIds)))]

MapHas(m, k) == \E i \in 1..Len(m) : m[i][1] = k

MapSet(m, k, v) ==
  IF MapHas(m, k)
  THEN [i \in 1..Len(m) |-> IF m[i][1] = k THEN <<k, v>> ELSE m[i]]
  ELSE Append(m, <<k, v>>)

MapValues(m) == [i \in 1..Len(m) |-> m[i][2]]

\* Faulty variant: the loop without the test that both ids are present.
RECURSIVE BuildObjEnisUnchecked(_, _)
BuildObjEnisUnchecked(enis, acc) ==
  IF enis = <<>> THEN acc
  ELSE LET ni == Head(enis)
           nxt == IF ~MapHas(acc, ni.SubnetId)
                  THEN MapSet(acc, ni.SubnetId, ni.NetworkInterfaceId)
                  ELSE acc
       IN BuildObjEnisUnchecked(Tail(enis), nxt)

\* Faulty variant: the loop without the has() test, so that the interface
\* listed last of a subnet replaces the ones before it.
RECURSIVE BuildObjEnisLastWins(_, _)
BuildObjEnisLastWins(enis, acc) ==
  IF enis = <<>> THEN acc
  ELSE LET ni == Head(enis)
           nxt == IF Truthy(ni.SubnetId) /\ Truthy(ni.NetworkInterfaceId)
                  THEN MapSet(acc, ni.SubnetId, ni.NetworkInterfaceId)
                  ELSE acc
       IN BuildObjEnisLastWins(Tail(enis), nxt)

\* for (const ni of enis) { if (SubnetId && NetworkInterfaceId) if (!has) set }
RECURSIVE BuildObjEnis(_, _)
BuildObjEnis(enis, acc) ==
  IF enis = <<>> THEN acc
  ELSE LET ni == Head(enis)
           nxt == IF Truthy(ni.SubnetId) /\ Truthy(ni.NetworkInterfaceId)
                     /\ ~MapHas(acc, ni.SubnetId)
                  THEN MapSet(acc, ni.SubnetId, ni.NetworkInterfaceId)
                  ELSE acc
       IN BuildObjEnis(Tail(enis), nxt)

EniList(resp) ==
  IF IsSome(resp.NetworkInterfaces) THEN Get(resp.NetworkInterfaces) ELSE <<>>

\* [...].join(sep): the parts with the separator between them.
RECURSIVE Join(_, _)
Join(parts, sep) ==
  IF parts = <<>> THEN <<>>
  ELSE IF Len(parts) = 1 THEN <<parts[1]>>
  ELSE <<parts[1], sep>> \o Join(Tail(parts), sep)

EniSatisfied(objEnis, expected) == Len(objEnis) >= expected

EniResult(objEnis) ==
  [id |-> Join(MapValues(objEnis), ","),
   outs |-> [eniIds |-> MapValues(objEnis)]]

\* Faulty variant: the test allows the timeout a second time.
EniExpiredTwiceTimeout(t, expiredAt) == t > expiredAt + EniTimeoutSeconds * 1000

EniExpired(t, expiredAt) == t > expiredAt

EniTimeoutError(objEnis, expected) ==
  [name |-> "Timeout waiting for Lambda ENIs",
   found |-> Len(objEnis), expected |-> expected, current |-> objEnis]

\* The lines create() writes: a template string is the record of its name
\* and the values it embeds.
EniStartLine(expected, securityGroupId) ==
  [line |-> "Waiting for Lambda ENIs", expected |-> expected, sg |-> securityGroupId]

EniFoundLine(enis, objEnis) ==
  [line |-> "Found ENIs", enis |-> Len(enis), subnets |-> Len(objEnis),
   entries |-> objEnis]

EniReadyLine(objEnis) == [line |-> "All ENIs ready", entries |-> objEnis]

EniTimeoutLine(objEnis, expected) ==
  [line |-> "Timeout waiting for Lambda ENIs",
   found |-> Len(objEnis), expected |-> expected, current |-> objEnis]

EniRetryLine(objEnis, expected) ==
  [line |-> "ENIs ready", found |-> Len(objEnis), expected |-> expected,
   retryIn |-> EniPollSeconds]

----------------------------------------------------------------------------
(* WaitForEfsProvider.create: constants and pure parts *)

EfsDefaultTimeoutSeconds == 300

EfsDefaultStabilizationSeconds == 30

EfsPollMs == 10000

\* (inputs.timeoutSeconds || 300) * 1000
EfsTimeout(inp) ==
  (IF IsSome(inp.timeoutSeconds) /\ Get(inp.timeoutSeconds) # 0
   THEN Get(inp.timeoutSeconds) ELSE EfsDefaultTimeoutSeconds) * 1000

\* Faulty variant: || where the code has ??, so that 0 gives the default.
EfsStabilizationMsOr(inp) ==
  (IF IsSome(inp.stabilizationSeconds) /\ Get(inp.stabilizationSeconds) # 0
   THEN Get(inp.stabilizationSeconds) ELSE EfsDefaultStabilizationSeconds) * 1000

\* (inputs.stabilizationSeconds ?? 30) * 1000
EfsStabilizationMs(inp) ==
  (IF IsSome(inp.stabilizationSeconds)
   THEN Get(inp.stabilizationSeconds) ELSE EfsDefaultStabilizationSeconds) * 1000

\* resp.MountTargets?.map(mt => `${mt.MountTargetId}: ${mt.LifeCycleState}`)
EfsStates(resp) ==
  IF IsSome(resp.MountTargets)
  THEN Some([i \in 1..Len(Get(resp.MountTargets)) |->
               <<Get(resp.MountTargets)[i].MountTargetId,
                 Get(resp.MountTargets)[i].LifeCycleState>>])
  ELSE None

\* Faulty variant: some() where the code has every().
EfsSomeAvailable(resp) ==
  IF IsSome(resp.MountTargets)
  THEN Some(\E i \in 1..Len(Get(resp.MountTargets)) :
              Get(resp.MountTargets)[i].LifeCycleState = "available")
  ELSE None

\* resp.MountTargets?.every(mt => mt.LifeCycleState === 'available')
EfsAllAvailable(resp) ==
  IF IsSome(resp.MountTargets)
  THEN Some(\A i \in 1..Len(Get(resp.MountTargets)) :
              Get(resp.MountTargets)[i].LifeCycleState = "available")
  ELSE None

\* if (allAvailable)
EfsSatisfied(allAvailable) == IsSome(allAvailable) /\ Get(allAvailable)

EfsExpired(t, start, timeout) == t - start > timeout

EfsTimeoutError(states) ==
  [name |-> "Timeout: Not all mount targets are available", states |-> states]

\* Faulty variant: the outputs carry the values the run used, the defaults
\* filled in where the caller gave none.
EfsResultResolved(inp) ==
  [id |-> <<"wait-for-", inp.fileSystemId>>,
   outs |-> [inp EXCEPT !.timeoutSeconds = Some(EfsTimeout(inp) \div 1000),
                        !.stabilizationSeconds = Some(EfsStabilizationMs(inp) \div 1000)]]

EfsResult(inp) ==
  [id |-> <<"wait-for-", inp.fileSystemId>>, outs |-> inp]

EfsStartLine(fileSystemId) ==
  [line |-> "Waiting for all EFS mount targets", fs |-> fileSystemId]

EfsAvailableLine(stabilizationMs) ==
  [line |-> "All EFS mount targets are available", buffer |-> stabilizationMs \div 1000]

EfsReadyLine == [line |-> "EFS mount targets fully ready"]

\* `Waiting... Current states: ${states?.join(', ')}`
EfsWaitingLine(states) == [line |-> "Waiting... Current states", states |-> states]

----------------------------------------------------------------------------
(* What "growing" means for successive probe results *)

EniGrows(prev, resp) ==
  ~IsSome(prev) \/ Range(EniList(Get(prev))) \subseteq Range(EniList(resp))

EfsTargets(resp) ==
  IF IsSome(resp.MountTargets) THEN Get(resp.MountTargets) ELSE <<>>

EfsGrows(prev, resp) ==
  ~IsSome(prev) \/
  \A i \in 1..Len(EfsTargets(Get(prev))) :
    /\ i <= Len(EfsTargets(resp))
    /\ EfsTargets(resp)[i].MountTargetId = EfsTargets(Get(prev))[i].MountTargetId
    /\ (EfsTargets(Get(prev))[i].LifeCycleState = "available"
          => EfsTargets(resp)[i].LifeCycleState = "available")

----------------------------------------------------------------------------
(* initialLambdaFunctions: the resources declared behind the two waits.    *)
(* A resource is named <<name, i>>, i the index the code puts in the name  *)
(* (0 where it puts none).                                                 *)

EniWaitName == <<"lambda-eni-wait", 0>>

EfsWaitName == <<"efs-wait", 0>>

EfsAccessPointName == <<"lambda-efs-ap", 0>>

\* The functions of the deployment (functionUrls): two that mount EFS and
\* one that does not.
FunctionUrls == <<"management", "fetch-input-data", "email-listener">>

ShouldMountEfs(name) ==
  name \in {"management", "transform", "execute-fetch-input-data",
            "execute-transform", "fetch-input-data"}

\* Faulty variant: the access point declared without dependsOn.
EfsAccessPointUngated ==
  [name |-> EfsAccessPointName, type |-> "aws.efs.AccessPoint",
   dependsOn |-> {}, binds |-> ""]

\* new aws.efs.AccessPoint(..., { dependsOn: waiter })
EfsAccessPoint ==
  [name |-> EfsAccessPointName, type |-> "aws.efs.AccessPoint",
   dependsOn |-> {EfsWaitName}, binds |-> ""]

\* new aws.lambda.Function(..., { dependsOn: shouldMountEfs
\*   ? [loggingService, efsAccessPoint, waiter] : [loggingService] });
\* the log group waits for nothing and is left out.
LambdaFunction(i) ==
  [name |-> <<"function", i - 1>>, type |-> "aws.lambda.Function",
   dependsOn |-> IF ShouldMountEfs(FunctionUrls[i])
                 THEN {EfsAccessPointName, EfsWaitName} ELSE {},
   binds |-> FunctionUrls[i]]

EfsDependents ==
  {EfsAccessPoint} \cup {LambdaFunction(i) : i \in 1..Len(FunctionUrls)}

\* id.split(','): the parts of the joined string between the separators;
\* the empty string has one part, the empty string. (trim leaves an
\* interface id, which has no blanks, as it is.)
RECURSIVE Split(_, _, _)
Split(s, sep, cur) ==
  IF s = <<>> THEN <<cur>>
  ELSE IF Head(s) = sep THEN <<cur>> \o Split(Tail(s), sep, "")
  ELSE Split(Tail(s), sep, Head(s))

\* LambdaEniWait.eniIds: pulumi.output(this.id).apply(id => id.split(','))
LambdaEniWaitEniIds(id) == Split(id, ",", "")

\* Faulty variant: every association binds the first interface.
EipResourcesFirstId(eniIds) ==
  UNION {{[name |-> <<"lambda-nic-eip", i - 1>>, type |-> "aws.ec2.Eip",
           dependsOn |-> {EniWaitName}, binds |-> ""],
          [name |-> <<"lambda-nic-eip-assoc", i - 1>>, type |-> "aws.ec2.EipAssociation",
           dependsOn |-> {<<"lambda-nic-eip", i - 1>>}, binds |-> eniIds[1]]} :
         i \in 1..Len(eniIds)}

\* eniIds.forEach((eniId, i) => { new Eip(...-i, dependsOn [eniWait]);
\*   new EipAssociation(...-i, {networkInterfaceId: eniId}, dependsOn [eip]) })
EipResources(eniIds) ==
  UNION {{[name |-> <<"lambda-nic-eip", i - 1>>, type |-> "aws.ec2.Eip",
           dependsOn |-> {EniWaitName}, binds |-> ""],
          [name |-> <<"lambda-nic-eip-assoc", i - 1>>, type |-> "aws.ec2.EipAssociation",
           dependsOn |-> {<<"lambda-nic-eip", i - 1>>}, binds |-> eniIds[i]]} :
         i \in 1..Len(eniIds)}

\* No call of getSourceCodeRemoteUrl is followed.
NoUrlCall == [pc |-> "off"]

\* The program state outside a deployment run.
NoProgram ==
  [main |-> "off", defaultSubnetIds |-> <<>>, subnetsKnown |-> FALSE,
   efsMountTargets |-> <<>>, createdFunctions |-> <<>>,
   mountTargetsApplied |-> FALSE, eniWaitApplied |-> FALSE]

EfsName == <<"lambda-efs", 0>>

LambdaSgName == <<"lambda-sg", 0>>

\* new aws.efs.FileSystem(...), new aws.ec2.SecurityGroup(...-lambda-sg)
EfsFileSystem ==
  [name |-> EfsName, type |-> "aws.efs.FileSystem", dependsOn |-> {}, binds |-> ""]

LambdaSg ==
  [name |-> LambdaSgName, type |-> "aws.ec2.SecurityGroup", dependsOn |-> {},
   binds |-> ""]

\* subnetIds.forEach((subnetId, i) => new aws.efs.MountTarget(...-mt-i,
\*   { fileSystemId: efs.id, subnetId })): the file system's id is an input.
MountTarget(subnetIds, i) ==
  [name |-> <<"lambda-efs-mt", i - 1>>, type |-> "aws.efs.MountTarget",
   dependsOn |-> {EfsName}, binds |-> subnetIds[i]]

\* new WaitForEfsTargets(...-efs-wait, { fileSystemId: efs.id, ... },
\*   { dependsOn: efsMountTargets }): the array as it is when the resource
\* is constructed.
WaitForEfsTargetsResource(efsMountTargets) ==
  [name |-> EfsWaitName, type |-> "WaitForEfsTargets",
   dependsOn |-> Range(efsMountTargets) \cup {EfsName}, binds |-> ""]

\* Faulty variant: the wait declared with the EFS wait as its only dependency.
LambdaEniWaitResourceNoFunctions(createdFunctions) ==
  [name |-> EniWaitName, type |-> "LambdaEniWait",
   dependsOn |-> {EfsWaitName}, binds |-> ""]

\* new LambdaEniWait(...-lambda-eni-wait, { securityGroupId, subnetIds },
\*   { dependsOn: [...createdFunctions, waiter] })
LambdaEniWaitResource(createdFunctions) ==
  [name |-> EniWaitName, type |-> "LambdaEniWait",
   dependsOn |-> Range(createdFunctions) \cup {EfsWaitName}, binds |-> ""]

\* The inputs the deployment gives its EFS wait.
ProgramEfsInputs ==
  [fileSystemId |-> "fs-1", timeoutSeconds |-> Some(600), stabilizationSeconds |-> None]

\* The default subnets getSubnets may report.
DefaultSubnetIds == {<<>>, <<"subnet-2">>, <<"subnet-2", "subnet-1">>}

----------------------------------------------------------------------------
(* The run *)

Init ==
  /\ kind \in {"eni", "efs"}
  /\ inputs \in (IF kind = "eni" THEN EniInputs ELSE EfsInputs)
  /\ pc = "new"
  /\ now \in StartTimes
  /\ loc = <<>>
  /\ lastResp = None
  /\ probes = 0
  /\ lastIssuedAt = 0
  /\ result = None
  /\ error = None
  /\ cancelRequested = FALSE
  /\ monotone = TRUE
  /\ slow = 0
  /\ startedAt = 0
  /\ probeErrors = 0
  /\ stack = [registered |-> IF kind = "efs" THEN EfsDependents ELSE {},
              created |-> {}, applied |-> FALSE]
  /\ runs = <<>>
  /\ console = <<>>
  /\ program = NoProgram
  /\ urlCall = NoUrlCall

\* The locals create() sets before its loop.
EniLocals(inp, t) ==
  [expected |-> Len(inp.subnetIds),
   expiredAt |-> t + EniTimeoutSeconds * 1000,
   objEnis |-> <<>>]

EfsLocals(inp, t) ==
  [timeout |-> EfsTimeout(inp),
   stabilizationMs |-> EfsStabilizationMs(inp),
   start |-> t,
   states |-> None,
   allAvailable |-> None]

\* create() is entered and runs to its first await: the first probe is sent.
Create ==
  /\ pc = "new"
  /\ loc' = IF kind = "eni" THEN EniLocals(inputs, now) ELSE EfsLocals(inputs, now)
  /\ pc' = "probing"
  /\ probes' = 1
  /\ lastIssuedAt' = now
  /\ startedAt' = now
  /\ console' = IF kind = "eni"
                THEN <<EniStartLine(Len(inputs.subnetIds), inputs.securityGroupId)>>
                ELSE <<EfsStartLine(inputs.fileSystemId)>>
  /\ UNCHANGED <<urlCall, program, stack, runs, kind, inputs, now, lastResp, result, error, cancelRequested,
                 monotone, slow, probeErrors>>

IsSlow(lat) == IF lat > 0 THEN 1 ELSE 0

CanTake(lat) == slow + IsSlow(lat) <= MaxSlowProbes

\* Faulty variant: the timeout error is built from the map of the iteration before.
EniIterationStaleSummary(l, resp, t) ==
  LET objEnis == BuildObjEnis(EniList(resp), <<>>)
      found == EniFoundLine(EniList(resp), objEnis)
  IN IF EniSatisfied(objEnis, l.expected)
     THEN [pc |-> "done", result |-> Some(EniResult(objEnis)), error |-> None,
           loc |-> [l EXCEPT !.objEnis = objEnis],
           log |-> <<found, EniReadyLine(objEnis)>>]
     ELSE IF EniExpired(t, l.expiredAt)
     THEN [pc |-> "timedout", result |-> None,
           error |-> Some(EniTimeoutError(l.objEnis, l.expected)),
           loc |-> [l EXCEPT !.objEnis = objEnis],
           log |-> <<found, EniTimeoutLine(l.objEnis, l.expected)>>]
     ELSE [pc |-> "sleeping", result |-> None, error |-> None,
           loc |-> [l EXCEPT !.objEnis = objEnis],
           log |-> <<found, EniRetryLine(objEnis, l.expected)>>]

\* Faulty variant: the map is kept across iterations, so that interfaces of
\* earlier responses keep counting.
EniIterationCumulative(l, resp, t) ==
  LET objEnis == BuildObjEnis(EniList(resp), l.objEnis)
      found == EniFoundLine(EniList(resp), objEnis)
  IN IF EniSatisfied(objEnis, l.expected)
     THEN [pc |-> "done", result |-> Some(EniResult(objEnis)), error |-> None,
           loc |-> [l EXCEPT !.objEnis = objEnis],
           log |-> <<found, EniReadyLine(objEnis)>>]
     ELSE IF EniExpired(t, l.expiredAt)
     THEN [pc |-> "timedout", result |-> None,
           error |-> Some(EniTimeoutError(objEnis, l.expected)),
           loc |-> [l EXCEPT !.objEnis = objEnis],
           log |-> <<found, EniTimeoutLine(objEnis, l.expected)>>]
     ELSE [pc |-> "sleeping", result |-> None, error |-> None,
           loc |-> [l EXCEPT !.objEnis = objEnis],
           log |-> <<found, EniRetryLine(objEnis, l.expected)>>]

\* Faulty variant: an unsatisfied iteration inside the deadline goes round
\* the loop without its sleep.
EniIterationNoSleep(l, resp, t) ==
  LET objEnis == BuildObjEnis(EniList(resp), <<>>)
      found == EniFoundLine(EniList(resp), objEnis)
  IN IF EniSatisfied(objEnis, l.expected)
     THEN [pc |-> "done", result |-> Some(EniResult(objEnis)), error |-> None,
           loc |-> [l EXCEPT !.objEnis = objEnis],
           log |-> <<found, EniReadyLine(objEnis)>>]
     ELSE IF EniExpired(t, l.expiredAt)
     THEN [pc |-> "timedout", result |-> None,
           error |-> Some(EniTimeoutError(objEnis, l.expected)),
           loc |-> [l EXCEPT !.objEnis = objEnis],
           log |-> <<found, EniTimeoutLine(objEnis, l.expected)>>]
     ELSE [pc |-> "probing", result |-> None, error |-> None,
           loc |-> [l EXCEPT !.objEnis = objEnis],
           log |-> <<found, EniRetryLine(objEnis, l.expected)>>]

\* What the rest of an iteration of the ENI loop does with a response read at t.
EniIteration(l, resp, t) ==
  LET objEnis == BuildObjEnis(EniList(resp), <<>>)
      found == EniFoundLine(EniList(resp), objEnis)
  IN IF EniSatisfied(objEnis, l.expected)
     THEN [pc |-> "done", result |-> Some(EniResult(objEnis)), error |-> None,
           loc |-> [l EXCEPT !.objEnis = objEnis],
           log |-> <<found, EniReadyLine(objEnis)>>]
     ELSE IF EniExpired(t, l.expiredAt)
     THEN [pc |-> "timedout", result |-> None,
           error |-> Some(EniTimeoutError(objEnis, l.expected)),
           loc |-> [l EXCEPT !.objEnis = objEnis],
           log |-> <<found, EniTimeoutLine(objEnis, l.expected)>>]
     ELSE [pc |-> "sleeping", result |-> None, error |-> None,
           loc |-> [l EXCEPT !.objEnis = objEnis],
           log |-> <<found, EniRetryLine(objEnis, l.expected)>>]

\* DescribeNetworkInterfaces resolves after lat ms.
EniProbeReturns(resp, lat) ==
  /\ kind = "eni"
  /\ pc = "probing"
  /\ LET it == EniIteration(loc, resp, now + lat)
     IN /\ pc' = it.pc
        /\ result' = it.result
        /\ error' = it.error
        /\ loc' = it.loc
        /\ console' = it.log
  /\ CanTake(lat)
  /\ now' = now + lat
  /\ slow' = slow + IsSlow(lat)
  /\ lastResp' = Some(resp)
  /\ monotone' = (monotone /\ EniGrows(lastResp, resp))
  /\ UNCHANGED <<urlCall, program, stack, runs, kind, inputs, probes, lastIssuedAt, cancelRequested, startedAt,
                 probeErrors>>

\* Faulty variant: an unsatisfied iteration inside the deadline restarts the
\* time measured, so that the deadline moves with every poll.
EfsIterationSlidingStart(l, resp, t) ==
  LET states == EfsStates(resp)
      allAvailable == EfsAllAvailable(resp)
      l2 == [l EXCEPT !.states = states, !.allAvailable = allAvailable]
  IN IF EfsSatisfied(allAvailable)
     THEN [pc |-> "stabilizing", error |-> None, loc |-> l2,
           log |-> <<EfsAvailableLine(l.stabilizationMs)>>]
     ELSE IF EfsExpired(t, l.start, l.timeout)
     THEN [pc |-> "timedout", error |-> Some(EfsTimeoutError(states)), loc |-> l2,
           log |-> <<>>]
     ELSE [pc |-> "sleeping", error |-> None, loc |-> [l2 EXCEPT !.start = t],
           log |-> <<EfsWaitingLine(states)>>]

\* Faulty variant: an unsatisfied poll inside the deadline goes to its sleep
\* without writing the line that shows the states.
EfsIterationSilentWait(l, resp, t) ==
  LET states == EfsStates(resp)
      allAvailable == EfsAllAvailable(resp)
      l2 == [l EXCEPT !.states = states, !.allAvailable = allAvailable]
  IN IF EfsSatisfied(allAvailable)
     THEN [pc |-> "stabilizing", error |-> None, loc |-> l2,
           log |-> <<EfsAvailableLine(l.stabilizationMs)>>]
     ELSE IF EfsExpired(t, l.start, l.timeout)
     THEN [pc |-> "timedout", error |-> Some(EfsTimeoutError(states)), loc |-> l2,
           log |-> <<>>]
     ELSE [pc |-> "sleeping", error |-> None, loc |-> l2, log |-> <<>>]

\* Faulty variant: the deadline is tested before the predicate, so that a
\* satisfied probe read after the deadline fails the run.
EfsIterationDeadlineFirst(l, resp, t) ==
  LET states == EfsStates(resp)
      allAvailable == EfsAllAvailable(resp)
      l2 == [l EXCEPT !.states = states, !.allAvailable = allAvailable]
  IN IF EfsExpired(t, l.start, l.timeout)
     THEN [pc |-> "timedout", error |-> Some(EfsTimeoutError(states)), loc |-> l2,
           log |-> <<>>]
     ELSE IF EfsSatisfied(allAvailable)
     THEN [pc |-> "stabilizing", error |-> None, loc |-> l2,
           log |-> <<EfsAvailableLine(l.stabilizationMs)>>]
     ELSE [pc |-> "sleeping", error |-> None, loc |-> l2,
           log |-> <<EfsWaitingLine(states)>>]

\* What the rest of an iteration of the EFS loop does with a response read at t.
EfsIteration(l, resp, t) ==
  LET states == EfsStates(resp)
      allAvailable == EfsAllAvailable(resp)
      l2 == [l EXCEPT !.states = states, !.allAvailable = allAvailable]
  IN IF EfsSatisfied(allAvailable)
     THEN [pc |-> "stabilizing", error |-> None, loc |-> l2,
           log |-> <<EfsAvailableLine(l.stabilizationMs)>>]
     ELSE IF EfsExpired(t, l.start, l.timeout)
     THEN [pc |-> "timedout", error |-> Some(EfsTimeoutError(states)), loc |-> l2,
           log |-> <<>>]
     ELSE [pc |-> "sleeping", error |-> None, loc |-> l2,
           log |-> <<EfsWaitingLine(states)>>]

\* DescribeMountTargets resolves after lat ms.
EfsProbeReturns(resp, lat) ==
  /\ kind = "efs"
  /\ pc = "probing"
  /\ LET it == EfsIteration(loc, resp, now + lat)
     IN /\ pc' = it.pc
        /\ error' = it.error
        /\ loc' = it.loc
        /\ console' = it.log
  /\ CanTake(lat)
  /\ now' = now + lat
  /\ slow' = slow + IsSlow(lat)
  /\ lastResp' = Some(resp)
  /\ monotone' = (monotone /\ EfsGrows(lastResp, resp))
  /\ UNCHANGED <<urlCall, program, stack, runs, kind, inputs, probes, lastIssuedAt, result, cancelRequested,
                 startedAt, probeErrors>>

\* Faulty variant: the rejection is caught and the loop goes on to its sleep.
ProbeFailsRetried(lat) ==
  /\ pc = "probing"
  /\ pc' = "sleeping"
  /\ CanTake(lat)
  /\ now' = now + lat
  /\ slow' = slow + IsSlow(lat)
  /\ probeErrors' = probeErrors + 1
  /\ console' = <<>>
  /\ UNCHANGED <<urlCall, program, stack, runs, kind, inputs, loc, lastResp, probes, lastIssuedAt, result, error,
                 cancelRequested, monotone, startedAt>>

\* client.send rejects after lat ms: nothing in create() catches it.
ProbeFails(lat) ==
  /\ pc = "probing"
  /\ pc' = "failed"
  /\ error' = Some([name |-> "ProbeError"])
  /\ CanTake(lat)
  /\ now' = now + lat
  /\ slow' = slow + IsSlow(lat)
  /\ probeErrors' = probeErrors + 1
  /\ console' = <<>>
  /\ UNCHANGED <<urlCall, program, stack, runs, kind, inputs, loc, lastResp, probes, lastIssuedAt, result,
                 cancelRequested, monotone, startedAt>>

\* Faulty variant: the two providers' poll intervals exchanged.
PollMsExchanged == IF kind = "eni" THEN EfsPollMs ELSE EniPollSeconds * 1000

PollMs == IF kind = "eni" THEN EniPollSeconds * 1000 ELSE EfsPollMs

\* Faulty variant: the deadline is also checked when the sleep ends, and a
\* run past it fails without probing again.
SleepEndsChecksDeadline ==
  /\ pc = "sleeping"
  /\ now' = now + PollMs
  /\ LET late == IF kind = "eni" THEN EniExpired(now + PollMs, loc.expiredAt)
                 ELSE EfsExpired(now + PollMs, loc.start, loc.timeout)
     IN /\ pc' = IF late THEN "timedout" ELSE "probing"
        /\ probes' = IF late THEN probes ELSE probes + 1
        /\ lastIssuedAt' = IF late THEN lastIssuedAt ELSE now + PollMs
        /\ error' = IF ~late THEN error
                    ELSE IF kind = "eni"
                    THEN Some(EniTimeoutError(loc.objEnis, loc.expected))
                    ELSE Some(EfsTimeoutError(loc.states))
  /\ console' = <<>>
  /\ UNCHANGED <<urlCall, program, stack, runs, kind, inputs, loc, lastResp, result, cancelRequested,
                 monotone, slow, startedAt, probeErrors>>

\* The sleep between polls ends; the loop sends the next probe.
SleepEnds ==
  /\ pc = "sleeping"
  /\ now' = now + PollMs
  /\ pc' = "probing"
  /\ probes' = probes + 1
  /\ lastIssuedAt' = now + PollMs
  /\ console' = <<>>
  /\ UNCHANGED <<urlCall, program, stack, runs, kind, inputs, loc, lastResp, result, error, cancelRequested,
                 monotone, slow, startedAt, probeErrors>>

\* Faulty variant: the loop probes again after the stabilization sleep.
StabilizationEndsReprobes ==
  /\ pc = "stabilizing"
  /\ now' = now + loc.stabilizationMs
  /\ pc' = "probing"
  /\ probes' = probes + 1
  /\ lastIssuedAt' = now + loc.stabilizationMs
  /\ console' = <<>>
  /\ UNCHANGED <<urlCall, program, stack, runs, kind, inputs, loc, lastResp, result, error, cancelRequested,
                 monotone, slow, startedAt, probeErrors>>

\* The stabilization sleep ends; the loop is left and the result returned.
StabilizationEnds ==
  /\ pc = "stabilizing"
  /\ now' = now + loc.stabilizationMs
  /\ pc' = "done"
  /\ result' = Some(EfsResult(inputs))
  /\ console' = <<EfsReadyLine>>
  /\ UNCHANGED <<urlCall, program, stack, runs, kind, inputs, loc, lastResp, probes, lastIssuedAt, error,
                 cancelRequested, monotone, slow, startedAt, probeErrors>>

\* The deployment is cancelled while the run sleeps. Neither sleep takes an
\* abort signal and nothing in create() reads one.
Cancel ==
  /\ pc \in {"sleeping", "stabilizing"}
  /\ ~cancelRequested
  /\ cancelRequested' = TRUE
  /\ UNCHANGED <<urlCall, program, stack, runs, console, kind, inputs, pc, now, loc, lastResp, probes, lastIssuedAt,
                 result, error, monotone, slow, startedAt, probeErrors>>

\* The responses DescribeNetworkInterfaces can give to this run's request.
EniResponsesTo ==
  [inp \in EniInputs |->
     {DescribeNetworkInterfaces(c, inp.subnetIds) : c \in CloudListings}
       \cup {[NetworkInterfaces |-> None]}]

EniResponses == IF kind = "eni" THEN EniResponsesTo[inputs] ELSE {}

\* A probe call returns any response the control plane can give, after any
\* latency: both are read off the next state.
Next ==
  \/ Create
  \/ /\ kind = "eni" /\ pc = "probing"
     /\ lastResp' \in {Some(resp) : resp \in EniResponses}
     /\ now' \in {now + lat : lat \in Latencies}
     /\ EniProbeReturns(Get(lastResp'), now' - now)
  \/ /\ kind = "efs" /\ pc = "probing"
     /\ lastResp' \in {Some(resp) : resp \in EfsResponses}
     /\ now' \in {now + lat : lat \in Latencies}
     /\ EfsProbeReturns(Get(lastResp'), now' - now)
  \/ \E lat \in Latencies : ProbeFails(lat)
  \/ SleepEnds
  \/ StabilizationEnds

Spec == Init /\ [][Next]_vars

\* The event loop resumes the run when its timer fires or its probe call
\* settles, and every probe call settles.
FairSpec == Spec /\ WF_vars(Next)

\* The same run with the deployment free to be cancelled during a sleep.
NextCancel == Next \/ Cancel

SpecCancel == Init /\ [][NextCancel]_vars

----------------------------------------------------------------------------
(* The deployment around the run: the callback on the ENI wait's output    *)
(* and the engine creating the declared resources.                         *)

\* The wait resource is created when its create() has returned.
WaitCreated(name) ==
  \/ name = EniWaitName /\ kind = "eni" /\ pc = "done"
  \/ name = EfsWaitName /\ kind = "efs" /\ pc = "done"

IsCreated(name) == WaitCreated(name) \/ name \in stack.created

\* eniWait.eniIds.apply(...): runs once, when the wait's output is known.
\* An empty eniIds makes the callback throw before it declares anything.
EniIdsApply ==
  /\ kind = "eni" /\ pc = "done" /\ ~stack.applied
  /\ LET eniIds == LambdaEniWaitEniIds(Get(result).id)
     IN stack' = [stack EXCEPT
                    !.applied = TRUE,
                    !.registered = IF Len(eniIds) = 0 THEN @
                                   ELSE @ \cup EipResources(eniIds)]
  /\ UNCHANGED <<urlCall, program, runs, console, kind, inputs, pc, now, loc, lastResp, probes, lastIssuedAt,
                 result, error, cancelRequested, monotone, slow, startedAt,
                 probeErrors>>

\* The engine creates a declared resource once all it depends on is created.
EngineCreates(r) ==
  /\ r \in stack.registered
  /\ r.name \notin stack.created
  /\ \A d \in r.dependsOn : IsCreated(d)
  /\ stack' = [stack EXCEPT !.created = @ \cup {r.name}]
  /\ UNCHANGED <<urlCall, program, runs, console, kind, inputs, pc, now, loc, lastResp, probes, lastIssuedAt,
                 result, error, cancelRequested, monotone, slow, startedAt,
                 probeErrors>>

NextDeploy ==
  \/ Next
  \/ EniIdsApply
  \/ \E r \in stack.registered : EngineCreates(r)

\* The run together with the deployment it gates.
DeploySpec == Init /\ [][NextDeploy]_vars

----------------------------------------------------------------------------
(* Two runs side by side. Each run of create() has its own inputs, locals, *)
(* client and clock readings; runs[i] holds those of run i. The steps are  *)
(* the ones of a single run, taken by either run in any order.             *)

\* A run of the pair issues at most MaxPairPolls probes.
MaxPairPolls == 2

PairEniInputs == EniInputs

PairEfsInputs ==
  {[fileSystemId |-> "fs-1", timeoutSeconds |-> None, stabilizationSeconds |-> None],
   [fileSystemId |-> "fs-1", timeoutSeconds |-> Some(5), stabilizationSeconds |-> Some(15)]}

\* A run before create() is entered.
NewRun(k, inp, t) ==
  [kind |-> k, inputs |-> inp, pc |-> "new", now |-> t, loc |-> <<>>,
   lastResp |-> None, probes |-> 0, result |-> None, error |-> None]

PairStarts ==
  LET new == {NewRun("eni", inp, t) : inp \in PairEniInputs, t \in StartTimes}
               \cup {NewRun("efs", inp, t) : inp \in PairEfsInputs, t \in StartTimes}
  IN {<<a, b>> : a \in new, b \in new}

\* The responses the control plane can give to the probe of run r.
RunResponses(r) ==
  IF r.kind = "eni"
  THEN {DescribeNetworkInterfaces(c, r.inputs.subnetIds) : c \in CloudListings}
         \cup {[NetworkInterfaces |-> None]}
  ELSE EfsResponses

RunPollMs(r) == IF r.kind = "eni" THEN EniPollSeconds * 1000 ELSE EfsPollMs

\* create() is entered: the locals are set and the first probe is sent.
RunCreate(r) ==
  [r EXCEPT !.pc = "probing", !.probes = 1,
            !.loc = IF r.kind = "eni" THEN EniLocals(r.inputs, r.now)
                    ELSE EfsLocals(r.inputs, r.now)]

\* The probe call of run r resolves with resp: the rest of the iteration.
RunProbeReturns(r, resp) ==
  IF r.kind = "eni"
  THEN LET it == EniIteration(r.loc, resp, r.now)
       IN [r EXCEPT !.pc = it.pc, !.result = it.result, !.error = it.error,
                    !.loc = it.loc, !.lastResp = Some(resp)]
  ELSE LET it == EfsIteration(r.loc, resp, r.now)
       IN [r EXCEPT !.pc = it.pc, !.error = it.error,
                    !.loc = it.loc, !.lastResp = Some(resp)]

RunProbeFails(r) ==
  [r EXCEPT !.pc = "failed", !.error = Some([name |-> "ProbeError"])]

RunSleepEnds(r) ==
  [r EXCEPT !.pc = "probing", !.probes = @ + 1, !.now = @ + RunPollMs(r)]

RunStabilizationEnds(r) ==
  [r EXCEPT !.pc = "done", !.now = @ + r.loc.stabilizationMs,
            !.result = Some(EfsResult(r.inputs))]

InitPair ==
  /\ kind = "eni"
  /\ inputs = [securityGroupId |-> "sg-1", subnetIds |-> <<>>]
  /\ pc = "new"
  /\ now \in StartTimes
  /\ loc = <<>>
  /\ lastResp = None
  /\ probes = 0
  /\ lastIssuedAt = 0
  /\ result = None
  /\ error = None
  /\ cancelRequested = FALSE
  /\ monotone = TRUE
  /\ slow = 0
  /\ startedAt = 0
  /\ probeErrors = 0
  /\ stack = [registered |-> {}, created |-> {}, applied |-> FALSE]
  /\ runs \in PairStarts
  /\ console = <<>>
  /\ program = NoProgram
  /\ urlCall = NoUrlCall

single == <<kind, inputs, pc, now, loc, lastResp, probes, lastIssuedAt, result,
            error, cancelRequested, monotone, slow, startedAt, probeErrors, stack,
            console, program, urlCall>>

PairCreate(i) ==
  /\ runs[i].pc = "new"
  /\ runs' = [runs EXCEPT ![i] = RunCreate(runs[i])]
  /\ UNCHANGED single

\* Faulty variant: allAvailable and states are module-level variables, so
\* that the probe of one EFS run also sets them for the other.
PairProbeReturnsSharedFlag(i, resp) ==
  /\ runs[i].pc = "probing"
  /\ LET mine == RunProbeReturns(runs[i], resp)
     IN runs' = [j \in 1..2 |->
                   IF j = i THEN mine
                   ELSE IF runs[i].kind = "efs" /\ runs[j].kind = "efs"
                           /\ runs[j].pc # "new"
                        THEN [runs[j] EXCEPT !.loc.allAvailable = mine.loc.allAvailable,
                                             !.loc.states = mine.loc.states]
                        ELSE runs[j]]
  /\ UNCHANGED single

PairProbeReturns(i, resp) ==
  /\ runs[i].pc = "probing"
  /\ runs' = [runs EXCEPT ![i] = RunProbeReturns(runs[i], resp)]
  /\ UNCHANGED single

PairProbeFails(i) ==
  /\ runs[i].pc = "probing"
  /\ runs' = [runs EXCEPT ![i] = RunProbeFails(runs[i])]
  /\ UNCHANGED single

PairSleepEnds(i) ==
  /\ runs[i].pc = "sleeping"
  /\ runs[i].probes < MaxPairPolls
  /\ runs' = [runs EXCEPT ![i] = RunSleepEnds(runs[i])]
  /\ UNCHANGED single

PairStabilizationEnds(i) ==
  /\ runs[i].pc = "stabilizing"
  /\ runs' = [runs EXCEPT ![i] = RunStabilizationEnds(runs[i])]
  /\ UNCHANGED single

NextPair ==
  \E i \in 1..2 :
    \/ PairCreate(i)
    \/ \E resp \in RunResponses(runs[i]) : PairProbeReturns(i, resp)
    \/ PairProbeFails(i)
    \/ PairSleepEnds(i)
    \/ PairStabilizationEnds(i)

PairSpec == InitPair /\ [][NextPair]_vars

----------------------------------------------------------------------------
(* initialLambdaFunctions as a program: its synchronous stretch, the       *)
(* callbacks it leaves pending, the engine creating what is declared, and  *)
(* the two waits it declares (runs[1] the EFS wait, runs[2] the ENI wait). *)
(* A callback runs only when the synchronous stretch has reached its       *)
(* await.                                                                  *)

InitProgram ==
  /\ kind = "eni"
  /\ inputs = [securityGroupId |-> "sg-1", subnetIds |-> <<>>]
  /\ pc = "new"
  /\ now \in StartTimes
  /\ loc = <<>>
  /\ lastResp = None
  /\ probes = 0
  /\ lastIssuedAt = 0
  /\ result = None
  /\ error = None
  /\ cancelRequested = FALSE
  /\ monotone = TRUE
  /\ slow = 0
  /\ startedAt = 0
  /\ probeErrors = 0
  /\ stack = [registered |-> {}, created |-> {}, applied |-> FALSE]
  /\ console = <<>>
  /\ urlCall = NoUrlCall
  /\ \E s \in DefaultSubnetIds, t \in StartTimes :
       /\ program = [NoProgram EXCEPT !.main = "start", !.defaultSubnetIds = s]
       /\ runs = <<NewRun("efs", ProgramEfsInputs, t),
                   NewRun("eni", [securityGroupId |-> "sg-1", subnetIds |-> s], t)>>

base == <<kind, inputs, pc, now, loc, lastResp, probes, lastIssuedAt, result,
          error, cancelRequested, monotone, slow, startedAt, probeErrors, console,
          urlCall>>

WaitNames == <<EfsWaitName, EniWaitName>>

WaitTypes == {"WaitForEfsTargets", "LambdaEniWait"}

\* A wait resource is created when its create() has returned.
ProgramCreated(name) ==
  \/ name \in stack.created
  \/ \E i \in 1..2 : name = WaitNames[i] /\ runs[i].pc = "done"

\* Lines 149-488: everything up to the first await after the function list
\* is known. The mount-target callback has not run: efsMountTargets is as
\* the declaration left it.
MainRuns ==
  /\ program.main = "start"
  /\ LET fns == [i \in 1..Len(FunctionUrls) |-> LambdaFunction(i).name]
     IN /\ program' = [program EXCEPT !.main = "awaiting", !.createdFunctions = fns]
        /\ stack' = [stack EXCEPT !.registered =
                       @ \cup {EfsFileSystem, LambdaSg, EfsAccessPoint,
                               WaitForEfsTargetsResource(program.efsMountTargets)}
                         \cup {LambdaFunction(i) : i \in 1..Len(FunctionUrls)}]
  /\ UNCHANGED <<base, runs>>

\* aws.ec2.getSubnets resolves.
SubnetIdsResolve ==
  /\ program.main = "awaiting"
  /\ ~program.subnetsKnown
  /\ program' = [program EXCEPT !.subnetsKnown = TRUE]
  /\ UNCHANGED <<base, runs, stack>>

\* defaultSubnetIds.ids.apply(subnetIds => subnetIds.forEach(... push(mt)))
MountTargetsApply ==
  /\ program.subnetsKnown
  /\ ~program.mountTargetsApplied
  /\ LET ids == program.defaultSubnetIds
         mts == [i \in 1..Len(ids) |-> MountTarget(ids, i)]
     IN /\ program' = [program EXCEPT
                         !.mountTargetsApplied = TRUE,
                         !.efsMountTargets = @ \o [i \in 1..Len(ids) |-> mts[i].name]]
        /\ stack' = [stack EXCEPT !.registered = @ \cup Range(mts)]
  /\ UNCHANGED <<base, runs>>

\* pulumi.all([lambdaSg.id, defaultSubnetIds.ids, waiter]).apply(... new
\* LambdaEniWait(...)): runs when the security group's id and the subnet
\* ids are known.
EniWaitApply ==
  /\ program.subnetsKnown
  /\ ProgramCreated(LambdaSgName)
  /\ ~program.eniWaitApplied
  /\ program' = [program EXCEPT !.eniWaitApplied = TRUE]
  /\ stack' = [stack EXCEPT !.registered =
                 @ \cup {LambdaEniWaitResource(program.createdFunctions)}]
  /\ UNCHANGED <<base, runs>>

\* eniWait.eniIds.apply(...): runs when the ENI wait's id is known.
ProgramEniIdsApply ==
  /\ runs[2].pc = "done"
  /\ ~stack.applied
  /\ LET eniIds == LambdaEniWaitEniIds(Get(runs[2].result).id)
     IN stack' = [stack EXCEPT
                    !.applied = TRUE,
                    !.registered = IF Len(eniIds) = 0 THEN @
                                   ELSE @ \cup EipResources(eniIds)]
  /\ UNCHANGED <<base, runs, program>>

\* The engine creates a declared resource once all it depends on is created.
ProgramEngineCreates(r) ==
  /\ r \in stack.registered
  /\ r.type \notin WaitTypes
  /\ r.name \notin stack.created
  /\ \A d \in r.dependsOn : ProgramCreated(d)
  /\ stack' = [stack EXCEPT !.created = @ \cup {r.name}]
  /\ UNCHANGED <<base, runs, program>>

\* The engine calls create() of a declared wait once all it depends on is
\* created.
WaitStarts(i) ==
  /\ \E r \in stack.registered :
       /\ r.name = WaitNames[i]
       /\ \A d \in r.dependsOn : ProgramCreated(d)
  /\ PairCreate(i)

NextProgram ==
  \/ MainRuns
  \/ SubnetIdsResolve
  \/ MountTargetsApply
  \/ EniWaitApply
  \/ ProgramEniIdsApply
  \/ \E r \in stack.registered : ProgramEngineCreates(r)
  \/ \E i \in 1..2 :
       \/ WaitStarts(i)
       \/ \E resp \in RunResponses(runs[i]) : PairProbeReturns(i, resp)
       \/ PairProbeFails(i)
       \/ PairSleepEnds(i)
       \/ PairStabilizationEnds(i)

ProgramSpec == InitProgram /\ [][NextProgram]_vars

----------------------------------------------------------------------------
(* getSourceCodeRemoteUrl of the Azure deployment (src/unnamed/part_010).  *)
(* A step is the code between two awaits: the call of the API, the HEAD    *)
(* request, the ranged GET. urlCall.requests lists the requests sent, each *)
(* with its outcome once it has settled.                                   *)

\* config.get('skipUrlValidation'): not set, or the string given.
SkipUrlValidationConfigs ==
  {None, Some(""), Some("true"), Some("TRUE"), Some("True"), Some("false"), Some("1")}

\* String.prototype.toLowerCase on the strings of the model.
ToLowerCase(s) == IF s \in {"TRUE", "True"} THEN "true" ELSE s

\* config.get('codeVersion'): not set, or the string given.
CodeVersionConfigs == {None, Some(""), Some("1.4.0")}

\* response.data.url as the API may give it: a value and its typeof.
UrlFields ==
  {[typeof |-> "undefined", value |-> ""],
   [typeof |-> "object", value |-> ""],
   [typeof |-> "string", value |-> ""],
   [typeof |-> "string", value |-> "https://store/azure.zip?sig=1"],
   [typeof |-> "string", value |-> "https://store/azure.zip?sig=2"]}

\* What a rejected request carries.
RequestErrors ==
  {[message |-> "timeout exceeded"], [message |-> "Request failed with status code 403"]}

\* (config.get('codeVersion') || '0.0.0')
CodeVersion(cfg) == IF IsSome(cfg) /\ Truthy(Get(cfg)) THEN Get(cfg) ELSE "0.0.0"

\* (config.get('skipUrlValidation') || '').toLowerCase() === 'true'
SkipUrlValidation(cfg) ==
  ToLowerCase(IF IsSome(cfg) /\ Truthy(Get(cfg)) THEN Get(cfg) ELSE "") = "true"

ApiUrl(codeVersion) ==
  <<"http://demo8472884.mockable.io/dp-self-hosted?version=", codeVersion>>

\* typeof urlField !== 'string' || !urlField
InvalidUrlField(urlField) == urlField.typeof # "string" \/ ~Truthy(urlField.value)

Request(method, url, range) ==
  [method |-> method, url |-> url, range |-> range, outcome |-> "pending"]

\* The latest request has settled with outcome o.
Settle(requests, o) == [requests EXCEPT ![Len(requests)].outcome = o]

InitUrl ==
  /\ kind = "eni"
  /\ inputs = [securityGroupId |-> "sg-1", subnetIds |-> <<>>]
  /\ pc = "new"
  /\ now \in StartTimes
  /\ loc = <<>>
  /\ lastResp = None
  /\ probes = 0
  /\ lastIssuedAt = 0
  /\ result = None
  /\ error = None
  /\ cancelRequested = FALSE
  /\ monotone = TRUE
  /\ slow = 0
  /\ startedAt = 0
  /\ probeErrors = 0
  /\ stack = [registered |-> {}, created |-> {}, applied |-> FALSE]
  /\ runs = <<>>
  /\ console = <<>>
  /\ program = NoProgram
  /\ \E v \in CodeVersionConfigs, k \in SkipUrlValidationConfigs :
       urlCall = [pc |-> "start",
                  codeVersion |-> CodeVersion(v),
                  skipUrlValidation |-> SkipUrlValidation(k),
                  skipConfig |-> k,
                  sourceCodeUrl |-> "",
                  requests |-> <<>>,
                  result |-> None,
                  error |-> None]

rest == <<kind, inputs, pc, now, loc, lastResp, probes, lastIssuedAt, result,
          error, cancelRequested, monotone, slow, startedAt, probeErrors, stack,
          runs, console, program>>

\* getSourceCodeRemoteUrl() is called: the API request is sent.
UrlCallStarts ==
  /\ urlCall.pc = "start"
  /\ urlCall' = [urlCall EXCEPT
                   !.pc = "api",
                   !.requests = <<Request("GET", ApiUrl(urlCall.codeVersion), "")>>]
  /\ UNCHANGED rest

\* axios.get(apiUrl) resolves with data.url = urlField: the field is
\* checked; then the URL is returned (validation skipped) or the HEAD
\* request is sent.
ApiResolves(urlField) ==
  /\ urlCall.pc = "api"
  /\ urlCall' =
       IF InvalidUrlField(urlField)
       THEN [urlCall EXCEPT
               !.pc = "failed",
               !.requests = Settle(@, "resolved"),
               !.error = Some([message |-> "API did not return a valid url field"])]
       ELSE IF urlCall.skipUrlValidation
       THEN [urlCall EXCEPT
               !.pc = "returned",
               !.requests = Settle(@, "resolved"),
               !.sourceCodeUrl = urlField.value,
               !.result = Some(urlField.value)]
       ELSE [urlCall EXCEPT
               !.pc = "head",
               !.requests = Append(Settle(@, "resolved"),
                                   Request("HEAD", urlField.value, "")),
               !.sourceCodeUrl = urlField.value]
  /\ UNCHANGED rest

\* axios.get(apiUrl) rejects: the error is logged and thrown again.
ApiRejects(err) ==
  /\ urlCall.pc = "api"
  /\ urlCall' = [urlCall EXCEPT
                   !.pc = "failed",
                   !.requests = Settle(@, "rejected"),
                   !.error = Some(err)]
  /\ UNCHANGED rest

\* axios.head(sourceCodeUrl) resolves: the URL is returned.
HeadResolves ==
  /\ urlCall.pc = "head"
  /\ urlCall' = [urlCall EXCEPT
                   !.pc = "returned",
                   !.requests = Settle(@, "resolved"),
                   !.result = Some(urlCall.sourceCodeUrl)]
  /\ UNCHANGED rest

\* axios.head rejects: the ranged GET is sent.
HeadRejects(err) ==
  /\ urlCall.pc = "head"
  /\ urlCall' = [urlCall EXCEPT
                   !.pc = "get",
                   !.requests = Append(Settle(@, "rejected"),
                                       Request("GET", urlCall.sourceCodeUrl, "bytes=0-0"))]
  /\ UNCHANGED rest

\* The ranged GET resolves: the URL is returned.
RangedGetResolves ==
  /\ urlCall.pc = "get"
  /\ urlCall' = [urlCall EXCEPT
                   !.pc = "returned",
                   !.requests = Settle(@, "resolved"),
                   !.result = Some(urlCall.sourceCodeUrl)]
  /\ UNCHANGED rest

\* Faulty variant: the failure of the ranged GET is logged and the URL
\* returned all the same.
RangedGetRejectsLogged(err) ==
  /\ urlCall.pc = "get"
  /\ urlCall' = [urlCall EXCEPT
                   !.pc = "returned",
                   !.requests = Settle(@, "rejected"),
                   !.result = Some(urlCall.sourceCodeUrl)]
  /\ UNCHANGED rest

\* The ranged GET rejects: the call fails with its own error.
RangedGetRejects(err) ==
  /\ urlCall.pc = "get"
  /\ urlCall' = [urlCall EXCEPT
                   !.pc = "failed",
                   !.requests = Settle(@, "rejected"),
                   !.error = Some([message |->
                                     "Pre-signed URL not accessible; aborting deploy."])]
  /\ UNCHANGED rest

NextUrl ==
  \/ UrlCallStarts
  \/ \E urlField \in UrlFields : ApiResolves(urlField)
  \/ \E err \in RequestErrors : ApiRejects(err)
  \/ HeadResolves
  \/ \E err \in RequestErrors : HeadRejects(err)
  \/ RangedGetResolves
  \/ \E err \in RequestErrors : RangedGetRejects(err)

UrlSpec == InitUrl /\ [][NextUrl]_vars

----------------------------------------------------------------------------
(* What an observer of the run sees: the latest response and the request,  *)
(* described without the code's own data structures.                       *)

Responded == IsSome(lastResp)

ObsInterfaces ==
  SelectSeq(EniList(Get(lastResp)),
            LAMBDA ni : ni.SubnetId # "" /\ ni.NetworkInterfaceId # "")

ObsCoveredSubnets == {ObsInterfaces[i].SubnetId : i \in 1..Len(ObsInterfaces)}

\* Positions of the interfaces that are the first listed of their subnet.
ObsFirstOfSubnet ==
  {i \in 1..Len(ObsInterfaces) :
     \A j \in 1..(i - 1) : ObsInterfaces[j].SubnetId # ObsInterfaces[i].SubnetId}

\* ids lists, in response order, the first listed interface of every subnet.
ObsIsFirstSeenProjection(ids) ==
  /\ Len(ids) = Cardinality(ObsFirstOfSubnet)
  /\ \A k \in 1..Len(ids) :
       \E i \in ObsFirstOfSubnet :
         /\ ids[k] = ObsInterfaces[i].NetworkInterfaceId
         /\ Cardinality({j \in ObsFirstOfSubnet : j < i}) = k - 1

ObsMountTargets == EfsTargets(Get(lastResp))

ObsAllTargetsAvailable ==
  \A i \in 1..Len(ObsMountTargets) : ObsMountTargets[i].LifeCycleState = "available"

Succeeding == pc \in {"stabilizing", "done"}

----------------------------------------------------------------------------
(* C1: in the EFS waiter a probe that returns no mount targets is never    *)
(* treated as satisfied: the run neither stabilizes nor reaches Done on an *)
(* empty probe. The code's [].every(...) is true, so this is violated.     *)
C1_EmptyProbeNeverSatisfied ==
  (kind = "efs" /\ Responded /\ Len(ObsMountTargets) = 0) => ~Succeeding

(* C2: on success the ENI waiter returns the interface ids in the order of *)
(* the declared subnetIds: the i-th id belongs to subnetIds[i]. The code   *)
(* returns them in the order of the response, so this is violated.         *)
C2_ResultInDeclaredOrder ==
  (kind = "eni" /\ pc = "done") =>
    LET ids == Get(result).outs.eniIds
    IN /\ Len(ids) = Len(inputs.subnetIds)
       /\ \A i \in 1..Len(ids) :
            \E k \in 1..Len(ObsInterfaces) :
              /\ ObsInterfaces[k].NetworkInterfaceId = ids[i]
              /\ ObsInterfaces[k].SubnetId = inputs.subnetIds[i]

(* C3: coverage rule of the ENI waiter: the latest probe is treated as     *)
(* satisfied (the run is Done) if and only if the number of distinct       *)
(* subnets with an interface carrying both ids is at least                 *)
(* subnetIds.length.                                                       *)
C3_CoverageRule ==
  (kind = "eni" /\ Responded) =>
    (pc = "done" <=> Cardinality(ObsCoveredSubnets) >= Len(inputs.subnetIds))

\* Two interfaces are listed for a request of two subnets, both in one
\* subnet: the probe is not satisfied.
C3_Witness ==
  /\ kind = "eni" /\ pc = "sleeping"
  /\ Len(inputs.subnetIds) = 2
  /\ Len(ObsInterfaces) = 2

(* C4: all-match rule of the EFS waiter on non-empty probes: a probe with  *)
(* at least one mount target is treated as satisfied if and only if every  *)
(* mount target's LifeCycleState is "available".                           *)
C4_AllMatchRule ==
  (kind = "efs" /\ Responded /\ Len(ObsMountTargets) > 0) =>
    (Succeeding <=> ObsAllTargetsAvailable)

\* One target available, one still creating: the run keeps polling.
C4_Witness ==
  /\ kind = "efs" /\ pc = "sleeping"
  /\ \E i, j \in 1..Len(ObsMountTargets) :
       /\ ObsMountTargets[i].LifeCycleState = "available"
       /\ ObsMountTargets[j].LifeCycleState # "available"

----------------------------------------------------------------------------
(* Times as the claims state them *)

ClaimTimeoutMs ==
  IF kind = "eni" THEN EniTimeoutSeconds * 1000
  ELSE IF IsSome(inputs.timeoutSeconds) /\ Get(inputs.timeoutSeconds) # 0
       THEN Get(inputs.timeoutSeconds) * 1000
       ELSE EfsDefaultTimeoutSeconds * 1000

ClaimPollMs == IF kind = "eni" THEN EniPollSeconds * 1000 ELSE EfsPollMs

ClaimStabilizationMs ==
  IF kind = "eni" THEN 0
  ELSE IF IsSome(inputs.stabilizationSeconds)
       THEN Get(inputs.stabilizationSeconds) * 1000
       ELSE EfsDefaultStabilizationSeconds * 1000

Elapsed == now - startedAt

\* The latest response is one the code treats as satisfied. For the EFS waiter
\* that includes a present, empty MountTargets list (see C1).
ObsTreatedSatisfied ==
  IF kind = "eni"
  THEN Cardinality(ObsCoveredSubnets) >= Len(inputs.subnetIds)
  ELSE IsSome(Get(lastResp).MountTargets) /\ ObsAllTargetsAvailable

\* The result is the projection of the latest response.
ObsResultIsProjection ==
  IF kind = "eni"
  THEN /\ ObsIsFirstSeenProjection(Get(result).outs.eniIds)
       /\ Get(result).id = Join(Get(result).outs.eniIds, ",")
  ELSE Get(result) = [id |-> <<"wait-for-", inputs.fileSystemId>>, outs |-> inputs]

----------------------------------------------------------------------------
Terminal == pc \in {"done", "timedout", "failed"}

TimeoutBounds ==
  /\ Succeeding => ObsTreatedSatisfied
  /\ pc = "sleeping" => Elapsed <= ClaimTimeoutMs
  /\ pc \in {"probing", "timedout", "failed"} =>
       lastIssuedAt - startedAt <= ClaimTimeoutMs + ClaimPollMs
  /\ pc = "timedout" =>
       /\ Elapsed > ClaimTimeoutMs
       /\ now - lastIssuedAt \in Latencies

C7_ProbeErrorAborts ==
  /\ [](probeErrors > 0 =>
          /\ pc = "failed"
          /\ probeErrors = 1
          /\ result = None
          /\ error = Some([name |-> "ProbeError"]))
  /\ [][probeErrors = 0]_vars

\* A probe rejects on a later poll, well before the deadline.
C7_Witness ==
  pc = "failed" /\ probes >= 2 /\ Elapsed < ClaimTimeoutMs

(* C8: the timeout error carries the summary of the latest probe: for the  *)
(* ENI waiter the found/expected counts and the subnet:interface pairs of  *)
(* that probe, for the EFS waiter the id and state of every mount target   *)
(* that probe returned.                                                    *)
C8_TimeoutCarriesLastProbe ==
  pc = "timedout" =>
    IF kind = "eni"
    THEN LET e == Get(error)
         IN /\ e.found = Cardinality(ObsCoveredSubnets)
            /\ e.expected = Len(inputs.subnetIds)
            /\ Len(e.current) = e.found
            /\ ObsIsFirstSeenProjection([k \in 1..Len(e.current) |-> e.current[k][2]])
            /\ \A k \in 1..Len(e.current) :
                 \E i \in ObsFirstOfSubnet :
                   ObsInterfaces[i] = [SubnetId |-> e.current[k][1],
                                       NetworkInterfaceId |-> e.current[k][2]]
    ELSE LET st == Get(error).states
         IN IF IsSome(Get(lastResp).MountTargets)
            THEN /\ IsSome(st)
                 /\ Len(Get(st)) = Len(ObsMountTargets)
                 /\ \A i \in 1..Len(ObsMountTargets) :
                      Get(st)[i] = <<ObsMountTargets[i].MountTargetId,
                                     ObsMountTargets[i].LifeCycleState>>
            ELSE st = None

\* The ENI waiter times out having found one subnet of two in its last probe.
C8_Witness ==
  /\ kind = "eni" /\ pc = "timedout"
  /\ Cardinality(ObsCoveredSubnets) = 1
  /\ Len(inputs.subnetIds) = 2

(* C9: a cancellation issued while the run sleeps makes the run end with a *)
(* cancellation outcome by the time that sleep is over. Violated: the run  *)
(* goes on to its next probe (or to Done).                                 *)
C9_CancelEndsRun ==
  (cancelRequested /\ pc \notin {"sleeping", "stabilizing"}) => pc = "cancelled"

----------------------------------------------------------------------------
(* The states of a run as the specification names them *)

\* The steps the state diagram lists: start, Polling -> Polling, Polling ->
\* Satisfied -> (Stabilizing ->) Done, Polling -> TimedOut. Satisfied is
\* passed through within the step of the satisfied probe.
ListedSteps ==
  {<<"new", "probing">>, <<"probing", "sleeping">>, <<"sleeping", "probing">>,
   <<"probing", "timedout">>} \cup
  (IF kind = "eni" THEN {<<"probing", "done">>}
   ELSE {<<"probing", "stabilizing">>, <<"stabilizing", "done">>})

StepIn(steps) == <<pc, pc'>> \in steps

\* Done carries a result and no error, TimedOut a timeout error and no result.
ExclusiveOutcomes ==
  /\ pc = "done" => (IsSome(result) /\ error = None)
  /\ pc = "timedout" =>
       /\ result = None /\ IsSome(error)
       /\ Get(error).name = (IF kind = "eni" THEN "Timeout waiting for Lambda ENIs"
                             ELSE "Timeout: Not all mount targets are available")
  /\ pc \notin {"done", "timedout", "failed"} => (result = None /\ error = None)

\* A probe is issued exactly on entering the loop and when a poll sleep ends.
ProbesIssuedOnlyWhenPolling ==
  probes' = (IF <<pc, pc'>> \in {<<"new", "probing">>, <<"sleeping", "probing">>}
             THEN probes + 1 ELSE probes)

(* C11 as stated: every step of a run is one of Polling -> Polling,        *)
(* Polling -> Satisfied -> (Stabilizing ->) Done, Polling -> TimedOut.     *)
(* Violated: a rejected probe call ends the run from Polling in a third    *)
(* terminal state that is neither Done nor TimedOut.                       *)
C11_OnlyListedTransitions == [][StepIn(ListedSteps)]_vars

(* C11 as amended: every step of a run is one of the listed transitions or *)
(* Polling -> Failed (the probe call rejected); Done, TimedOut and Failed  *)
(* are terminal (no step follows them, so no probe is issued and nothing   *)
(* is retried) and mutually exclusive: Done has a result and no error,     *)
(* TimedOut a timeout error and no result.                                 *)
C11_Transitions ==
  /\ []ExclusiveOutcomes
  /\ [][/\ StepIn(ListedSteps \cup {<<"probing", "failed">>})
        /\ ProbesIssuedOnlyWhenPolling]_vars

\* The EFS waiter has polled, then a probe call rejects: the third exit.
C11_Witness ==
  kind = "efs" /\ pc = "failed" /\ Responded /\ error = Some([name |-> "ProbeError"])

----------------------------------------------------------------------------
\* The complete interfaces and the mount targets of the latest response.
ObsInterfaceSet == Range(ObsInterfaces)

ObsTargetPairs ==
  {<<ObsMountTargets[i].MountTargetId, ObsMountTargets[i].LifeCycleState>> :
     i \in 1..Len(ObsMountTargets)}

(* C12: the observed state is a snapshot. After every response the run is  *)
(* satisfied exactly when that response alone satisfies the rule; the ids  *)
(* the ENI waiter returns, and the entries a timeout error reports, all    *)
(* occur in that response; what the EFS waiter returns does not depend on  *)
(* any response. Nothing of an earlier response counts or is reported.     *)
C12_SnapshotOnly ==
  Responded =>
    /\ Succeeding <=> ObsTreatedSatisfied
    /\ (pc = "done" /\ kind = "eni") =>
         LET ids == Get(result).outs.eniIds
         IN /\ Len(ids) = Cardinality(ObsCoveredSubnets)
            /\ \A k \in 1..Len(ids) :
                 \E ni \in ObsInterfaceSet : ni.NetworkInterfaceId = ids[k]
    /\ (pc = "done" /\ kind = "efs") =>
         Get(result) = [id |-> <<"wait-for-", inputs.fileSystemId>>, outs |-> inputs]
    /\ (pc = "timedout" /\ kind = "eni") =>
         /\ Get(error).found = Cardinality(ObsCoveredSubnets)
         /\ \A k \in 1..Len(Get(error).current) :
              [SubnetId |-> Get(error).current[k][1],
               NetworkInterfaceId |-> Get(error).current[k][2]] \in ObsInterfaceSet
    /\ (pc = "timedout" /\ kind = "efs" /\ IsSome(Get(error).states)) =>
         Range(Get(Get(error).states)) = ObsTargetPairs

\* The second response of an ENI run for two subnets lacks an interface the
\* first one listed and covers one subnet only: the run keeps polling.
C12_Witness ==
  /\ kind = "eni" /\ probes = 2 /\ ~monotone /\ pc = "sleeping"
  /\ Len(inputs.subnetIds) = 2
  /\ Cardinality(ObsCoveredSubnets) = 1

----------------------------------------------------------------------------
\* The subnet an interface id belongs to in the latest response.
ObsSubnetsOfId(id) ==
  {ObsInterfaces[i].SubnetId :
     i \in {j \in 1..Len(ObsInterfaces) : ObsInterfaces[j].NetworkInterfaceId = id}}

\* The id of the interface listed first among those of subnet s that carry
\* both a subnet id and an interface id.
ObsFirstIdOf(s) ==
  LET first == CHOOSE i \in 1..Len(ObsInterfaces) :
                 /\ ObsInterfaces[i].SubnetId = s
                 /\ \A j \in 1..(i - 1) : ObsInterfaces[j].SubnetId # s
  IN ObsInterfaces[first].NetworkInterfaceId

(* C13: the ENI waiter's result holds exactly one interface id per subnet  *)
(* of the final probe: for every subnet with an interface in that probe    *)
(* the id of the first listed one is returned once, no other id is         *)
(* returned, and no two returned ids belong to the same subnet.            *)
C13_OneIdPerSubnet ==
  (kind = "eni" /\ pc = "done") =>
    LET ids == Get(result).outs.eniIds
    IN /\ Len(ids) = Cardinality(ObsCoveredSubnets)
       /\ \A s \in ObsCoveredSubnets :
            Cardinality({k \in 1..Len(ids) : ids[k] = ObsFirstIdOf(s)}) = 1
       /\ \A k \in 1..Len(ids) : \E s \in ObsCoveredSubnets : ids[k] = ObsFirstIdOf(s)
       /\ \A j, k \in 1..Len(ids) :
            j # k => ObsSubnetsOfId(ids[j]) \cap ObsSubnetsOfId(ids[k]) = {}

\* The final probe lists two interfaces of one subnet; one id is returned.
C13_Witness ==
  /\ kind = "eni" /\ pc = "done"
  /\ Len(ObsInterfaces) = 2
  /\ ObsInterfaces[1].SubnetId = ObsInterfaces[2].SubnetId
  /\ Get(result).outs.eniIds = <<ObsInterfaces[1].NetworkInterfaceId>>

----------------------------------------------------------------------------
\* The deadline the run holds in its locals.
ObsDeadline == IF kind = "eni" THEN loc.expiredAt ELSE loc.start + loc.timeout

(* C15: the deadline is fixed when the run starts, as start + timeout, and *)
(* no later step changes it; every timeout decision compares the clock     *)
(* reading after the probe call with that value: an unsatisfied probe read *)
(* after it ends the run, one read at or before it is followed by a sleep, *)
(* however long the probe call took.                                       *)
C15_DeadlineFixed ==
  /\ [](pc # "new" => ObsDeadline = startedAt + ClaimTimeoutMs)
  /\ [][/\ pc # "new" => (ObsDeadline' = ObsDeadline /\ startedAt' = startedAt)
        /\ (pc = "probing" /\ pc' = "timedout") => now' > ObsDeadline
        /\ (pc = "probing" /\ pc' = "sleeping") => now' <= ObsDeadline]_vars

\* The last probe was issued before the deadline and was slow to return:
\* the run has timed out, the deadline was not extended.
C15_Witness ==
  /\ pc = "timedout" /\ probes >= 2
  /\ lastIssuedAt < startedAt + ClaimTimeoutMs
  /\ now - lastIssuedAt = SlowProbeSeconds * 1000

----------------------------------------------------------------------------
(* C19: the EFS waiter honours the caller's overrides: its timeout is the  *)
(* timeoutSeconds supplied, whatever the value, and 300 s when omitted;    *)
(* its stabilization delay is the stabilizationSeconds supplied and 30 s   *)
(* when omitted. Violated: a supplied timeoutSeconds of 0 gives 300 s.     *)
C19_OverridesHonoured ==
  (kind = "efs" /\ pc # "new") =>
    /\ loc.timeout =
         (IF IsSome(inputs.timeoutSeconds) THEN Get(inputs.timeoutSeconds)
          ELSE EfsDefaultTimeoutSeconds) * 1000
    /\ loc.stabilizationMs =
         (IF IsSome(inputs.stabilizationSeconds) THEN Get(inputs.stabilizationSeconds)
          ELSE EfsDefaultStabilizationSeconds) * 1000
    /\ (pc = "timedout" /\ IsSome(inputs.timeoutSeconds))
         => Elapsed > Get(inputs.timeoutSeconds) * 1000
    /\ (pc = "sleeping" /\ IsSome(inputs.timeoutSeconds))
         => Elapsed <= Get(inputs.timeoutSeconds) * 1000

----------------------------------------------------------------------------
(* C20: on success the EFS waiter echoes its input: the resource id is     *)
(* "wait-for-" followed by the fileSystemId input, the outputs have the    *)
(* fields of the inputs with the values the caller gave (an omitted        *)
(* override stays omitted), whatever the probes returned; the run never    *)
(* changes its inputs.                                                     *)
C20_EchoesInput ==
  /\ [](kind = "efs" /\ pc = "done" =>
          /\ Get(result).id = <<"wait-for-", inputs.fileSystemId>>
          /\ DOMAIN Get(result).outs = DOMAIN inputs
          /\ \A f \in DOMAIN inputs : Get(result).outs[f] = inputs[f])
  /\ [][inputs' = inputs]_vars

\* Done after several probes, for a caller that gave no override.
C20_Witness ==
  /\ kind = "efs" /\ pc = "done" /\ probes >= 2
  /\ inputs.timeoutSeconds = None /\ inputs.stabilizationSeconds = None
  /\ Len(ObsMountTargets) > 0

----------------------------------------------------------------------------
(* What an observer of the deployment sees *)

ObsOfType(t) == {r \in stack.registered : r.type = t}

ObsCreatedOfType(t) == {r \in ObsOfType(t) : r.name \in stack.created}

\* The eniIds output of the wait resource: its id split at the commas, that
\* is the ids create() returned, or one empty string when it returned none.
ObsWaitEniIds ==
  IF Get(result).outs.eniIds = <<>> THEN <<"">> ELSE Get(result).outs.eniIds

----------------------------------------------------------------------------
\* The functions that mount EFS, as the claim lists them.
ClaimEfsFunctions ==
  {"management", "transform", "execute-fetch-input-data", "execute-transform",
   "fetch-input-data"}

ObsEfsDependentsCreated ==
  ObsCreatedOfType("aws.efs.AccessPoint") \cup
  {r \in ObsCreatedOfType("aws.lambda.Function") : r.binds \in ClaimEfsFunctions}

(* C17: the EFS wait gates its dependents. The access point and the Lambda *)
(* functions that mount EFS are created only when the WaitForEfsTargets    *)
(* run is Done, its stabilization delay over; none of them is created when *)
(* the run has timed out or failed, or while it is polling or stabilizing. *)
C17_EfsDependentsGated ==
  /\ ObsEfsDependentsCreated # {} =>
       /\ kind = "efs" /\ pc = "done"
       /\ IsSome(result)
       /\ Elapsed >= ClaimStabilizationMs
  /\ pc # "done" => ObsEfsDependentsCreated = {}
  /\ \A r \in ObsEfsDependentsCreated :
       r.type = "aws.lambda.Function" => ObsCreatedOfType("aws.efs.AccessPoint") # {}

\* After the stabilization delay the access point and both mounting
\* functions of the deployment are created.
C17_Witness ==
  /\ kind = "efs" /\ pc = "done" /\ ClaimStabilizationMs > 0
  /\ Cardinality(ObsEfsDependentsCreated) = 3

----------------------------------------------------------------------------
(* What an observer sees of a run r of the pair *)

RunInterfaces(r) ==
  SelectSeq(EniList(Get(r.lastResp)),
            LAMBDA ni : ni.SubnetId # "" /\ ni.NetworkInterfaceId # "")

\* The final observed state of an ENI run as a mapping: for every subnet of
\* the latest response the interface listed first for it.
RunEntries(r) ==
  LET enis == RunInterfaces(r)
  IN {<<enis[i].SubnetId, enis[i].NetworkInterfaceId>> :
        i \in {k \in 1..Len(enis) :
                 \A j \in 1..(k - 1) : enis[j].SubnetId # enis[k].SubnetId}}

RunTargets(r) == EfsTargets(Get(r.lastResp))

SameFinalObservedState(a, b) ==
  /\ a.kind = b.kind
  /\ IF a.kind = "eni" THEN RunEntries(a) = RunEntries(b)
     ELSE a.inputs.fileSystemId = b.inputs.fileSystemId

(* C14: result projection is deterministic: two runs that are Done with    *)
(* the same final observed state (the same subnet-to-interface entries for *)
(* the ENI waiter, the same fileSystemId for the EFS waiter) have the same *)
(* output, resource id and order of eniIds included. Violated: the ENI     *)
(* waiter lists the ids in the order of the response.                      *)
C14_SameStateSameOutput ==
  \A i, j \in DOMAIN runs :
    (runs[i].pc = "done" /\ runs[j].pc = "done"
       /\ SameFinalObservedState(runs[i], runs[j]))
      => runs[i].result = runs[j].result

----------------------------------------------------------------------------
\* What run r would be treated as, and return, judged on its own latest
\* response, inputs and clock alone.
RunSatisfiedAlone(r) ==
  IF r.kind = "eni"
  THEN Cardinality(RunEntries(r)) >= Len(r.inputs.subnetIds)
  ELSE /\ IsSome(Get(r.lastResp).MountTargets)
       /\ \A k \in 1..Len(RunTargets(r)) : RunTargets(r)[k].LifeCycleState = "available"

RunTimeoutAlone(r) ==
  IF r.kind = "eni" THEN EniTimeoutSeconds * 1000
  ELSE IF IsSome(r.inputs.timeoutSeconds) /\ Get(r.inputs.timeoutSeconds) # 0
       THEN Get(r.inputs.timeoutSeconds) * 1000
       ELSE EfsDefaultTimeoutSeconds * 1000

RunElapsedAlone(r) ==
  (r.probes - 1) * (IF r.kind = "eni" THEN EniPollSeconds * 1000 ELSE EfsPollMs)
    + (IF r.kind = "efs" /\ r.pc = "done"
       THEN (IF IsSome(r.inputs.stabilizationSeconds)
             THEN Get(r.inputs.stabilizationSeconds)
             ELSE EfsDefaultStabilizationSeconds) * 1000
       ELSE 0)

RunResultAlone(r) ==
  IF r.kind = "eni"
  THEN /\ {Get(r.result).outs.eniIds[k] : k \in 1..Len(Get(r.result).outs.eniIds)}
            = {e[2] : e \in RunEntries(r)}
       /\ Len(Get(r.result).outs.eniIds) = Cardinality(RunEntries(r))
       /\ Get(r.result).id = Join(Get(r.result).outs.eniIds, ",")
  ELSE Get(r.result) = [id |-> <<"wait-for-", r.inputs.fileSystemId>>, outs |-> r.inputs]

RunAsIfAlone(r) ==
  /\ r.pc # "new" =>
       \E t \in StartTimes : r.now = t + RunElapsedAlone(r)
  /\ r.pc \in {"stabilizing", "done"} =>
       (IsSome(r.lastResp) /\ RunSatisfiedAlone(r))
  /\ r.pc = "done" => (r.error = None /\ IsSome(r.result) /\ RunResultAlone(r))
  /\ r.pc \in {"sleeping", "timedout"} =>
       (IsSome(r.lastResp) /\ ~RunSatisfiedAlone(r) /\ r.result = None)
  /\ r.pc = "timedout" => RunElapsedAlone(r) > RunTimeoutAlone(r)
  /\ r.pc = "sleeping" => RunElapsedAlone(r) <= RunTimeoutAlone(r)
  /\ r.pc = "failed" => r.result = None

(* C18: runs side by side are independent. In every interleaving of the    *)
(* steps of two runs (ENI and EFS, two EFS, two ENI) a step of one run     *)
(* leaves the other run's inputs, locals, clock reading, result and error  *)
(* as they were, and each run's state, outcome and returned value are      *)
(* those its own inputs, its own latest response and its own number of     *)
(* polls give, as when it runs alone.                                      *)
C18_RunsIndependent ==
  /\ [](\A i \in DOMAIN runs : RunAsIfAlone(runs[i]))
  /\ [][\A i \in DOMAIN runs :
          runs'[i] # runs[i] =>
            /\ \A j \in DOMAIN runs \ {i} : runs'[j] = runs[j]
            /\ runs'[i].inputs = runs[i].inputs
            /\ runs'[i].kind = runs[i].kind]_vars

\* Two EFS runs with different overrides have ended differently: one is
\* Done, the other timed out on its own deadline.
C18_Witness ==
  /\ runs # <<>>
  /\ runs[1].kind = "efs" /\ runs[2].kind = "efs"
  /\ runs[1].pc = "done" /\ runs[2].pc = "timedout"

----------------------------------------------------------------------------
\* A line of the console shows the state of the latest probe: for the ENI
\* waiter the number of covered subnets and the number expected, for the EFS
\* waiter the id and state of every mount target of the response (nothing
\* when the response has no list).
ObsProgressShown ==
  \E i \in 1..Len(console) :
    IF kind = "eni"
    THEN /\ {"found", "expected"} \subseteq DOMAIN console[i]
         /\ console[i].found = Cardinality(ObsCoveredSubnets)
         /\ console[i].expected = Len(inputs.subnetIds)
    ELSE /\ "states" \in DOMAIN console[i]
         /\ IF IsSome(Get(lastResp).MountTargets)
            THEN /\ IsSome(console[i].states)
                 /\ Len(Get(console[i].states)) = Len(ObsMountTargets)
                 /\ \A k \in 1..Len(ObsMountTargets) :
                      Get(console[i].states)[k] =
                        <<ObsMountTargets[k].MountTargetId,
                          ObsMountTargets[k].LifeCycleState>>
            ELSE console[i].states = None

(* C21: progress is logged at each poll. A run that sleeps between polls   *)
(* has written, in the step of the unsatisfied probe and before the sleep, *)
(* a line that shows that probe's state: the covered count and the         *)
(* expected count (ENI waiter), the state of every mount target of the     *)
(* response (EFS waiter).                                                  *)
C21_ProgressLogged ==
  pc = "sleeping" => (Responded /\ ~ObsTreatedSatisfied /\ ObsProgressShown)

\* The EFS waiter sleeps after its second poll, which listed two targets,
\* and the console shows both.
C21_Witness ==
  /\ kind = "efs" /\ pc = "sleeping" /\ probes = 2
  /\ Len(ObsMountTargets) = 2
  /\ console = <<EfsWaitingLine(EfsStates(Get(lastResp)))>>

----------------------------------------------------------------------------
(* What an observer of the deployment program sees *)

\* The mount targets of the deployment: one per default subnet.
ObsAllMountTargets ==
  {<<"lambda-efs-mt", i - 1>> : i \in 1..Len(program.defaultSubnetIds)}

ObsDeclared(t) == {r \in stack.registered : r.type = t}

\* The dependsOn of the declared EFS wait names every mount target.
ObsWaiterDependsOnAll ==
  \A r \in ObsDeclared("WaitForEfsTargets") : ObsAllMountTargets \subseteq r.dependsOn

\* The first probe of the EFS wait is issued only when every mount target
\* is created.
ObsProbeAfterMountTargets ==
  runs[1].pc # "new" => ObsAllMountTargets \subseteq stack.created

(* C22: when the EFS wait is declared its dependsOn holds every mount      *)
(* target of the deployment, one per default subnet, so that the wait's    *)
(* create() is not entered (no probe is issued) before all mount targets   *)
(* are created. Violated: the array is filled by a callback that runs      *)
(* after the wait was declared, and the wait can start before any mount    *)
(* target exists.                                                          *)
C22_WaiterAfterMountTargets ==
  program.main # "off" => (ObsWaiterDependsOnAll /\ ObsProbeAfterMountTargets)

----------------------------------------------------------------------------
(* C23: for every successful ENI wait the eniIds the LambdaEniWait         *)
(* resource exposes (its id split at the commas) is the eniIds list        *)
(* create() returned in its outputs, the empty list included. Violated: a  *)
(* run that returned no id has the id '', whose split is [''].             *)
C23_ExposedIdsAreReturnedIds ==
  (kind = "eni" /\ pc = "done") =>
    LambdaEniWaitEniIds(Get(result).id) = Get(result).outs.eniIds

----------------------------------------------------------------------------
\* The interfaces of the latest response whose id is id.
ObsInterfacesWithId(id) ==
  {i \in 1..Len(ObsInterfaces) : ObsInterfaces[i].NetworkInterfaceId = id}

(* C24: when the ENI waiter returns success, the API listing only          *)
(* interfaces of the requested subnets, every subnet of subnetIds is       *)
(* covered by exactly one returned id (an interface of that subnet in the  *)
(* final response) and the number of returned ids is subnetIds.length.     *)
C24_EverySubnetCoveredOnce ==
  (kind = "eni" /\ pc = "done") =>
    LET ids == Get(result).outs.eniIds
    IN /\ Len(ids) = Len(inputs.subnetIds)
       /\ \A n \in 1..Len(inputs.subnetIds) :
            Cardinality({k \in 1..Len(ids) :
                           \E i \in ObsInterfacesWithId(ids[k]) :
                             ObsInterfaces[i].SubnetId = inputs.subnetIds[n]}) = 1

\* Two subnets were requested; the second response is the first to list an
\* interface of each.
C24_Witness ==
  /\ kind = "eni" /\ pc = "done"
  /\ Len(inputs.subnetIds) = 2
  /\ Len(EniList(Get(lastResp))) = 2
  /\ probes >= 2

----------------------------------------------------------------------------
\* The start of the run plus the timeout, as the claim names the deadline.
ClaimDeadline == startedAt + ClaimTimeoutMs

(* C25: a run becomes TimedOut only in the step of a probe that is not     *)
(* satisfied and that is read strictly later than the deadline; the        *)
(* predicate is tested first, so a satisfied probe leads to success        *)
(* (Stabilizing or Done) even when it is read after the deadline, and an   *)
(* unsatisfied probe read at the deadline itself is followed by a sleep.   *)
C25_TimeoutOnlyAfterDeadline ==
  [][/\ pc' = "timedout" =>
          /\ pc = "probing"
          /\ ~ObsTreatedSatisfied'
          /\ now' > ClaimDeadline
     /\ (pc = "probing" /\ Responded' /\ ObsTreatedSatisfied' /\ pc' # "failed") =>
          Succeeding'
     /\ (pc = "probing" /\ Responded' /\ ~ObsTreatedSatisfied' /\ pc' # "failed") =>
          pc' = (IF now' > ClaimDeadline THEN "timedout" ELSE "sleeping")]_vars

\* The EFS waiter succeeds on a probe that was read after the deadline.
C25_Witness ==
  /\ kind = "efs" /\ pc = "stabilizing"
  /\ now > ClaimDeadline

----------------------------------------------------------------------------
\* A probe is issued only on entering the loop and when a poll sleep ends;
\* the sleep lasts exactly the interval and only the next probe follows it;
\* an unsatisfied probe read within the deadline leads to that sleep.
OneSleepBetweenProbes ==
  /\ pc = "sleeping" =>
       (pc' = "probing" /\ now' = now + ClaimPollMs /\ probes' = probes + 1)
  /\ probes' # probes =>
       (probes' = probes + 1 /\ pc \in {"new", "sleeping"} /\ pc' = "probing")
  /\ (pc = "probing" /\ pc' # "failed" /\ ~ObsTreatedSatisfied'
        /\ now' <= ClaimDeadline) => pc' = "sleeping"

(* C26 as stated: consecutive probes are separated by exactly one sleep of *)
(* the fixed poll interval (5 s ENI, 10 s EFS), an unsatisfied probe       *)
(* within the deadline is followed by that sleep and then by the next      *)
(* probe, and the run is suspended (time passes) nowhere but in the poll   *)
(* sleep and the stabilization delay. Violated: the run is also suspended  *)
(* while its probe call is pending.                                        *)
C26_SuspendsOnlyInSleeps ==
  [][/\ OneSleepBetweenProbes
     /\ now' # now =>
          \/ pc = "sleeping" /\ now' - now = ClaimPollMs
          \/ pc = "stabilizing" /\ now' - now = ClaimStabilizationMs]_vars

(* C26 as amended: the same, with the round trip of the probe call as the  *)
(* third place where the run is suspended: the clock advances during the   *)
(* poll sleep (by the interval), the stabilization delay (by the delay)    *)
(* and a pending probe call (by the time the call takes), nowhere else.    *)
C26_OneSleepBetweenProbes ==
  [][/\ OneSleepBetweenProbes
     /\ now' # now =>
          \/ pc = "sleeping" /\ now' - now = ClaimPollMs
          \/ pc = "stabilizing" /\ now' - now = ClaimStabilizationMs
          \/ pc = "probing" /\ now' - now \in Latencies]_vars

\* The third probe of an ENI run is out, two sleeps and one slow probe call
\* after the start.
C26_Witness ==
  /\ kind = "eni" /\ pc = "probing" /\ probes = 3
  /\ lastIssuedAt - startedAt = 2 * ClaimPollMs + SlowProbeSeconds * 1000

----------------------------------------------------------------------------
(* C27: if the ENI wait yields no interface id, the callback on eniIds     *)
(* throws 'No ENIs available for EIP association' and declares nothing:    *)
(* no Eip and no EipAssociation exists, and no EipAssociation ever binds   *)
(* an empty networkInterfaceId. Violated: the eniIds of a wait that        *)
(* returned no id is [''], so one Eip and one association for '' are       *)
(* declared.                                                               *)
C27_NoEipWithoutEni ==
  /\ (kind = "eni" /\ pc = "done" /\ Get(result).outs.eniIds = <<>>) =>
       (ObsOfType("aws.ec2.Eip") \cup ObsOfType("aws.ec2.EipAssociation")) = {}
  /\ \A r \in ObsOfType("aws.ec2.EipAssociation") : r.binds # ""

----------------------------------------------------------------------------
\* The Lambda functions of the deployment.
ObsAllFunctions == {<<"function", i - 1>> : i \in 1..Len(FunctionUrls)}

(* C28: the ENI wait starts only after all Lambda functions are created    *)
(* and the EFS wait is Done: create() of LambdaEniWait is not entered (no  *)
(* probe is issued) before every function of createdFunctions exists and   *)
(* the WaitForEfsTargets run has succeeded; when the EFS wait times out or *)
(* fails the ENI wait never starts.                                        *)
C28_EniWaitAfterFunctionsAndEfs ==
  program.main # "off" =>
    /\ runs[2].pc # "new" =>
         /\ ObsAllFunctions \subseteq stack.created
         /\ runs[1].pc = "done"
         /\ IsSome(runs[1].result)
    /\ \A r \in ObsDeclared("LambdaEniWait") :
         ObsAllFunctions \cup {EfsWaitName} \subseteq r.dependsOn

\* The ENI wait has issued its second probe; the three functions exist and
\* the EFS wait is Done.
C28_Witness ==
  /\ program.main # "off"
  /\ runs[2].pc = "probing" /\ runs[2].probes = 2
  /\ Cardinality(ObsAllFunctions \cap stack.created) = 3

----------------------------------------------------------------------------
\* The number of probes the claim allows a run: timeout / pollInterval + 2.
ClaimMaxProbes == ClaimTimeoutMs \div ClaimPollMs + 2

(* C29: every run terminates when its timers fire and its probe calls      *)
(* return: whatever the probes answer, it ends in Done, TimedOut or with   *)
(* the probe's error, and it issues at most timeout / pollInterval + 2     *)
(* probes.                                                                 *)
C29_Terminates ==
  /\ [](probes <= ClaimMaxProbes)
  /\ <>(pc \in {"done", "timedout", "failed"})

\* A run that used every probe the bound allows and then timed out.
C29_Witness ==
  pc = "timedout" /\ probes = ClaimMaxProbes

----------------------------------------------------------------------------
(* C30 *)

\* The configuration asks to skip the validation: 'true' in any case.
ObsSkipAsked ==
  urlCall.skipConfig \in {Some("true"), Some("TRUE"), Some("True")}

\* A request of this method and Range header to url has settled with outcome o.
ObsSettled(method, url, range, o) ==
  \E i \in DOMAIN urlCall.requests :
    urlCall.requests[i] =
      [method |-> method, url |-> url, range |-> range, outcome |-> o]

\* A request was sent to the URL under validation.
ObsValidationRequests ==
  {i \in DOMAIN urlCall.requests : i > 1}

\* C30: without skipUrlValidation, getSourceCodeRemoteUrl returns the URL
\* only if the HEAD request to it succeeded or, after a failed HEAD, the
\* ranged GET to it succeeded; when both have failed the call fails with
\* 'Pre-signed URL not accessible; aborting deploy.'; and when the API
\* request fails, or its answer has no valid url field, the call fails with
\* that error and no validation request has been sent.
C30_UrlValidatedBeforeReturn ==
  urlCall.pc # "off" =>
    /\ (urlCall.pc = "returned" /\ ~ObsSkipAsked) =>
         \E url \in {f.value : f \in UrlFields} :
           /\ urlCall.result = Some(url)
           /\ \/ ObsSettled("HEAD", url, "", "resolved")
              \/ /\ ObsSettled("HEAD", url, "", "rejected")
                 /\ ObsSettled("GET", url, "bytes=0-0", "resolved")
    /\ (\E url \in {f.value : f \in UrlFields} :
          /\ ObsSettled("HEAD", url, "", "rejected")
          /\ ObsSettled("GET", url, "bytes=0-0", "rejected")) =>
         /\ urlCall.pc = "failed"
         /\ urlCall.result = None
         /\ urlCall.error =
              Some([message |-> "Pre-signed URL not accessible; aborting deploy."])
    /\ (urlCall.requests # <<>> /\ urlCall.requests[1].outcome = "rejected") =>
         /\ urlCall.pc = "failed"
         /\ urlCall.result = None
         /\ urlCall.error \in {Some(err) : err \in RequestErrors}
         /\ ObsValidationRequests = {}
    /\ urlCall.error = Some([message |-> "API did not return a valid url field"]) =>
         /\ urlCall.pc = "failed"
         /\ ObsValidationRequests = {}

\* The URL was returned after a failed HEAD and a successful ranged GET,
\* with skipUrlValidation set to something other than 'true'.
C30_Witness ==
  /\ urlCall.pc = "returned"
  /\ urlCall.skipConfig = Some("false")
  /\ \E url \in {f.value : f \in UrlFields} :
       /\ urlCall.result = Some(url)
       /\ ObsSettled("HEAD", url, "", "rejected")
       /\ ObsSettled("GET", url, "bytes=0-0", "resolved")


====
